---- MODULE Spec2Model ----
(***************************************************************************)
(* Model of the Brightness service (Ax-Shell/services/brightness.py).      *)
(*                                                                         *)
(* The timer callbacks (_apply_brightness, _check_brightness_file, the      *)
(* one-shot cache timer) run on one GLib main loop, one at a time.  The    *)
(* setter, the getter and cleanup are public and may be called from any    *)
(* thread, so they can run while a callback is under way.  A handler is    *)
(* cut where another thread can get in: _apply_brightness while it waits   *)
(* for the lock and between the unlock of its critical section and its     *)
(* cache write, the getter while it waits in subprocess.run or reads the   *)
(* backlight file, the setter between its reads of _last_raw and between   *)
(* its two reads of _timer_id and between GLib.source_remove and          *)
(* GLib.timeout_add, cleanup between its reads and its write of            *)
(* _timer_id.  The debounce sources armed at the main loop are counted     *)
(* apart from the field _timer_id, which cleanup writes without the lock;  *)
(* an armed source may be dispatched at any later step.  The               *)
(* environment is the backlight file (content and modification time), the  *)
(* wall clock, the outcome of each file read or subprocess call, and the   *)
(* external set commands that are still running.                           *)
(***************************************************************************)
EXTENDS Integers, Sequences, FiniteSets, Bags, TLC

\* ------------------------------------------------------------ constants
MIN_CHANGE_THRESHOLD == 2
CACHE_INTERVAL == 3
\* the sentinel of _last_raw and _last_percent
INVALID == -1
\* Python None of _pending_raw (clamped values are never negative)
None == -1
\* fallback ceiling: self._read_max_brightness() or 100
DEFAULT_MAX == 100

\* ------------------------------------------------------------ bounds
\* seconds the wall clock may advance after construction
MaxTicks == 3
\* largest modification time of the backlight file (it starts at 1)
MaxMtime == 2
\* external set commands that may be running at once
MaxInflight == 2
\* caller threads that may wait in the getter's I/O at once
MaxReaders == 1
\* caller threads that may be inside the setter, cleanup or the getter's
\* I/O at once
MaxCallers == 2
\* debounce sources that may be armed at once
MaxSources == 2

\* ------------------------------------------------------------ inputs
\* raw values a caller passes to the setter
ReqVals == {-5, 29, 250}
\* the values requested while the external commands are followed
IoReqVals == {42, 250}
\* max_brightness values of the backlight device
DevMaxes == {200}
\* contents the backlight file can have on a device whose ceiling is m
FileVals(m) == {r \in {40} : r <= m}
\* what another program writes to it later
ExtVals(m) == {r \in {41, 150} : r <= m}
\* the outcomes of _setup_polling followed from construction on: it succeeds,
\* or its read of the file raises
SetupIo == {"ok", "read"}
\* "max value" answers of ddcutil getvcp 10
DdcMaxes == {100}
\* "current value" answers of ddcutil getvcp 10
DdcVals == {40}
\* time.time() at construction: far more than CACHE_INTERVAL after the
\* epoch, the initial _last_update_time
StartTime == CACHE_INTERVAL

Abs(x) == IF x < 0 THEN -x ELSE x
Min(a, b) == IF a < b THEN a ELSE b
Max(a, b) == IF a > b THEN a ELSE b

\* ------------------------------------------------------------ value helpers
\* The pairs <<raw, max>> of the model's value range (max in 80, 100, 200,
\* raw in 0..255) on which IEEE-754 double arithmetic makes
\* int((raw / max) * 100) one less than the exact quotient: raw / max is
\* rounded down, so the product falls just short of an integer
\* (29 / 100 * 100 = 28.999999999999996).
FloatShort ==
    {<<92, 80>>, <<164, 80>>, <<184, 80>>, <<204, 80>>,
     <<29, 100>>, <<57, 100>>, <<58, 100>>, <<113, 100>>, <<114, 100>>,
     <<115, 100>>, <<116, 100>>, <<201, 100>>, <<203, 100>>, <<205, 100>>,
     <<207, 100>>, <<226, 100>>, <<228, 100>>, <<230, 100>>, <<232, 100>>,
     <<251, 100>>, <<253, 100>>, <<255, 100>>,
     <<58, 200>>, <<114, 200>>, <<116, 200>>, <<226, 200>>, <<228, 200>>,
     <<230, 200>>, <<232, 200>>}

\* int((raw / max_screen) * 100) if max_screen > 0 else 0
ToPercent(raw, m) ==
    IF m > 0
    THEN ((raw * 100) \div m) - (IF <<raw, m>> \in FloatShort THEN 1 ELSE 0)
    ELSE 0

\* a clamp that forgets the lower limit
ClampNoFloor(value, m) == Min(value, m)

\* max(0, min(value, self.max_screen))
Clamp(value, m) == Max(0, Min(value, m))

\* ------------------------------------------------------------ state
VARIABLES
    backend,            \* self.backend: "none" (None), "brightnessctl", "ddcutil"
    has_bus,            \* whether the attribute self.ddcutil_bus was ever set
    has_dev,            \* environment: the backlight device the sysfs backend uses exists
    dev_max,            \* environment: the device's max_brightness
    max_screen,         \* self.max_screen
    pending_raw,        \* self._pending_raw
    timer_id,           \* self._timer_id is set
    sources,            \* debounce sources armed at the main loop
    owned,              \* self._timer_id is the id of one of them
    poll_timer_id,      \* self._poll_timer_id is set (the poll source is armed)
    cache_timer,        \* the anonymous 100 ms source of __init__ is armed
    last_percent,       \* self._last_percent
    last_raw,           \* self._last_raw
    last_update_time,   \* self._last_update_time
    last_file_mtime,    \* self._last_file_mtime
    now,                \* environment: time.time()
    file_raw,           \* environment: content of the brightness file
    file_mtime,         \* environment: its modification time
    lastOp,             \* history: the last handler run, its input and outputs
    fetched_at,         \* history: when the ddcutil backend last obtained the
                        \* cached value
    ctor,               \* history: the inputs of __init__, until a handler runs
    tracking,           \* whether the four variables below are followed
    inflight,           \* environment: raw values of the set commands still running
    file_own,           \* history: the file was last written by such a command
    lastEmit,           \* history: the percentage of the last notification
    missed,             \* history: a poll failed on a change no poll has read
    fired,              \* the main loop has called _apply_brightness, which
                        \* waits for or is about to take self._lock (line 310)
    taken,              \* <<raw>>, the local of an _apply_brightness that has left
                        \* its critical section and not yet written the cache;
                        \* <<>> otherwise
    cache_wait,         \* _update_brightness_cache waits in subprocess.run
    readers,            \* caller threads whose getter waits in subprocess.run
                        \* or in the read of the backlight file
    setting,            \* the setter that holds self._lock: <<>> when none,
                        \* else its value, its current_percent, whether it
                        \* has passed "if self._timer_id" (line 302) and
                        \* whether it has passed GLib.source_remove (line 303)
    cleanup_pc,         \* where a cleanup() under way stands: "out" (none),
                        \* "tested" (past line 351), "removed" (past line 352)
    winLast,            \* history: the debounce window that is open: the clamped
                        \* value of the last request accepted since a callback
                        \* last took the pending value (None: no window)
    winDrop,            \* history: the window's last request was dropped, and
                        \* nothing but the timer callback has run since
    closed,             \* history: the window the callback under way has
                        \* closed: its winLast and winDrop
    fresh               \* history: <<v>> from the moment _apply_brightness has
                        \* applied v for as long as nothing but reads follows

vars == <<backend, has_bus, has_dev, dev_max, max_screen, pending_raw, timer_id,
          poll_timer_id, cache_timer, last_percent, last_raw, last_update_time,
          last_file_mtime, now, file_raw, file_mtime, lastOp,
          fetched_at, ctor, tracking, inflight, file_own,
          lastEmit, missed, fired, taken, cache_wait, readers, sources, owned,
          setting, cleanup_pc, winLast, winDrop, closed, fresh>>

config == <<backend, has_bus, has_dev, dev_max, max_screen, tracking>>
commands == <<inflight, file_own, lastEmit, missed>>
threads == <<fired, taken, cache_wait, readers, setting, cleanup_pc>>
windows == <<winLast, closed>>
timers == <<timer_id, sources, owned>>
environment == <<now, file_raw, file_mtime>>

\* the main loop is inside a callback
Busy == fired \/ taken # <<>> \/ cache_wait

\* the caller threads inside the setter, cleanup or the getter's I/O
Callers ==
    (IF setting # <<>> THEN 1 ELSE 0) + (IF cleanup_pc # "out" THEN 1 ELSE 0)
        + readers

\* no debounce window
NoWin == [last |-> None, drop |-> FALSE]

\* what a handler reports: the request value, the value returned, the
\* percentages emitted on "screen", the raw values handed to the external
\* set command, the raw values applied, whether a subprocess was run
\* synchronously, whether its I/O failed or it raised, whether a request
\* was accepted, for the setter the current_percent it computed, for the
\* timer callback whether the window it closed ended with a dropped
\* request, and the handler's lock-relevant statements in program order
NoOp ==
    [op |-> "init", val |-> 0, ret |-> INVALID, emit |-> <<>>, cmd |-> <<>>,
     applied |-> <<>>, sub |-> FALSE, failed |-> FALSE, acc |-> FALSE,
     cp |-> INVALID, drop |-> FALSE, trace |-> <<>>]

\* ------------------------------------------------------------ construction
\* a detection that probes ddcutil before brightnessctl
DetectBackendDdcFirst(forced, bctl_exe, device, ddc_exe, bus_found) ==
    IF forced # "" THEN forced
    ELSE IF ddc_exe /\ bus_found THEN "ddcutil"
    ELSE IF bctl_exe /\ device THEN "brightnessctl"
    ELSE "none"

\* _detect_backend: forced is "" when no backend is forced
DetectBackend(forced, bctl_exe, device, ddc_exe, bus_found) ==
    IF forced # "" THEN forced
    ELSE IF bctl_exe /\ device THEN "brightnessctl"
    ELSE IF ddc_exe /\ bus_found THEN "ddcutil"
    ELSE "none"

\* whether _detect_backend reached "self.ddcutil_bus = bus"
BusAssigned(forced, bctl_exe, device, ddc_exe, bus_found) ==
    /\ forced = ""
    /\ ~(bctl_exe /\ device)
    /\ ddc_exe /\ bus_found

\* _read_max_brightness() or 100; answer is what the file or the tool
\* gives, INVALID when the read fails
ReadMax(b, bus, answer) ==
    IF b = "none" THEN DEFAULT_MAX
    ELSE IF b = "ddcutil" /\ ~bus THEN DEFAULT_MAX
    ELSE IF answer = INVALID \/ answer = 0 THEN DEFAULT_MAX
    ELSE answer

\* _setup_polling: io is "ok", "read" (open or int() raises) or "stat"
\* (getmtime raises after the value was cached)
SetupRaw(b, device, io, raw) ==
    IF b = "brightnessctl" /\ device /\ io # "read" THEN raw ELSE INVALID
SetupPercent(b, device, io, raw, m) ==
    IF b = "brightnessctl" /\ device /\ io # "read" THEN ToPercent(raw, m) ELSE INVALID
SetupMtime(b, device, io, mtime) ==
    IF b = "brightnessctl" /\ device /\ io = "ok" THEN mtime ELSE 0
SetupPolls(b, device, io) == b = "brightnessctl" /\ device /\ io = "ok"

Constructed ==
    \E forced \in {"", "brightnessctl", "ddcutil"},
       bctl_exe \in BOOLEAN, device \in BOOLEAN, ddc_exe \in BOOLEAN,
       bus_found \in BOOLEAN, dm \in DevMaxes, max_ok \in BOOLEAN,
       ddc_max \in DdcMaxes \cup {INVALID}, io \in SetupIo :
    \E raw \in FileVals(dm) :
        /\ backend = DetectBackend(forced, bctl_exe, device, ddc_exe, bus_found)
        /\ has_bus = BusAssigned(forced, bctl_exe, device, ddc_exe, bus_found)
        \* the backlight file is tracked for the backend that reads it
        /\ has_dev = (device /\ backend = "brightnessctl")
        /\ dev_max = IF has_dev THEN dm ELSE 0
        /\ file_raw = IF has_dev THEN raw ELSE 0
        /\ file_mtime = IF has_dev THEN 1 ELSE 0
        /\ max_screen =
             ReadMax(backend, has_bus,
                     IF backend = "ddcutil" THEN ddc_max
                     ELSE IF has_dev /\ max_ok THEN dm ELSE INVALID)
        /\ pending_raw = None
        /\ timer_id = FALSE
        /\ sources = 0
        /\ owned = FALSE
        /\ last_update_time = 0
        /\ last_raw = SetupRaw(backend, has_dev, io, file_raw)
        /\ last_percent = SetupPercent(backend, has_dev, io, file_raw, max_screen)
        /\ last_file_mtime = SetupMtime(backend, has_dev, io, file_mtime)
        /\ poll_timer_id = SetupPolls(backend, has_dev, io)
        /\ cache_timer = (backend = "ddcutil")
        /\ now = StartTime
        /\ lastOp = NoOp
        /\ fetched_at = 0
        /\ ctor = <<[forced |-> forced, bctl_exe |-> bctl_exe, device |-> device,
                     ddc_exe |-> ddc_exe, bus_found |-> bus_found]>>
        /\ fired = FALSE
        /\ taken = <<>>
        /\ cache_wait = FALSE
        /\ readers = 0
        /\ setting = <<>>
        /\ cleanup_pc = "out"
        /\ winLast = None
        /\ winDrop = FALSE
        /\ closed = NoWin
        /\ fresh = <<>>

\* the state after construction; the external commands are not followed to
\* their completion (what they write to the file is an ExternalChange)
Init ==
    /\ Constructed
    /\ tracking = FALSE
    /\ inflight = EmptyBag
    /\ file_own = FALSE
    /\ lastEmit = INVALID
    /\ missed = FALSE

\* the state after construction with a usable backend (for brightnessctl: the
\* device is there, its ceiling was read and the watcher is polling), the
\* external commands being followed to their completion
IoInit ==
    /\ Constructed
    /\ backend # "none"
    /\ backend = "brightnessctl" => (has_dev /\ max_screen = dev_max /\ poll_timer_id)
    /\ tracking = TRUE
    /\ inflight = EmptyBag
    /\ file_own = FALSE
    /\ lastEmit = INVALID
    /\ missed = FALSE

\* ------------------------------------------------------------ setter
\* the values callers request
Requests == IF tracking THEN IoReqVals ELSE ReqVals

\* current_percent of the setter: the percent of the cached raw value
CurrentPercent == IF last_raw # INVALID /\ max_screen > 0
                  THEN ToPercent(last_raw, max_screen) ELSE -1

\* the early return of the setter (lines 293-297): the change from cp, the
\* current_percent it computed at lines 284-288, is not significant and
\* _last_raw, read again at line 295, is valid
Dropped(value, cp) ==
    /\ Abs(ToPercent(Clamp(value, max_screen), max_screen) - cp)
         < MIN_CHANGE_THRESHOLD
    /\ last_raw # INVALID

\* a setter that keeps the value already pending (first write wins)
NewPendingFirstWins(value) ==
    IF timer_id /\ pending_raw # None THEN pending_raw ELSE Clamp(value, max_screen)

\* self._pending_raw after an accepted request for value
NewPending(value) == Clamp(value, max_screen)

\* the statements of the setter that take or release self._lock or assign
\* _pending_raw or _timer_id, in program order (the unlock is in "finally");
\* how: "dropped", "armed" or "raised" (GLib.source_remove(None) at line 303)
SetterTrace(how) ==
    IF how = "dropped" THEN <<"lock", "unlock">>
    ELSE IF how = "raised" THEN <<"lock", "w_pending", "unlock">>
    ELSE <<"lock", "w_pending", "w_timer", "unlock">>

\* line 304: a new source is armed and the field is given its id; the call
\* never blocks
Rearm ==
    /\ sources' = sources + 1
    /\ timer_id' = TRUE
    /\ owned' = TRUE

\* a request for value, dropped, is one of the open window and for another
\* value than the one waiting: an accepted request waits for a timer that
\* is armed or has been dispatched
DropInWindow(value) ==
    /\ winLast # None
    /\ sources > 0 \/ fired
    /\ Clamp(value, max_screen) # winLast

\* the step ends both short histories: it is no read that could follow an
\* apply and no step of the timer callback that could follow a dropped
\* request
Forget ==
    /\ fresh' = <<>>
    /\ winDrop' = FALSE

\* a request is made: the setter takes the lock, clamps the value and
\* computes current_percent from _last_raw (lines 278-291).  Callers make
\* requests only while fewer than MaxSources sources are armed and fewer
\* than MaxCallers of them are inside a handler; a setter that has the lock
\* runs to its end whatever happens meanwhile, and always arms its source
SetBegin ==
    /\ ctor' = <<>>
    /\ setting = <<>>
    /\ sources < MaxSources
    /\ Callers < MaxCallers
    /\ \E value \in Requests :
         /\ setting' = <<[val |-> value, cp |-> CurrentPercent, tested |-> FALSE,
                         removed |-> FALSE]>>
         /\ lastOp' = [NoOp EXCEPT !.op = "set_begin"]
    /\ Forget
    /\ UNCHANGED <<config, environment, commands, timers, windows, pending_raw,
                   poll_timer_id, cache_timer, last_percent, last_raw,
                   last_update_time, last_file_mtime, fetched_at, fired, taken,
                   cache_wait, readers, cleanup_pc>>

\* the setter goes on (lines 293-302): it returns early, or stores the
\* pending value and then arms the timer at once (no timer id stored) or
\* finds a timer id to remove first
SetRequest ==
    /\ ctor' = <<>>
    /\ setting # <<>>
    /\ ~setting[1].tested
    /\ UNCHANGED commands
    /\ fresh' = <<>>
    /\ closed' = closed
    /\ LET value == setting[1].val IN
        IF Dropped(value, setting[1].cp)
        THEN /\ lastOp' = [NoOp EXCEPT !.op = "set", !.val = value,
                                       !.cp = setting[1].cp,
                                       !.trace = SetterTrace("dropped")]
             /\ setting' = <<>>
             /\ winLast' = winLast
             /\ winDrop' = DropInWindow(value)
             /\ UNCHANGED <<timers, pending_raw>>
        ELSE /\ pending_raw' = NewPending(value)
             /\ winLast' = Clamp(value, max_screen)
             /\ winDrop' = FALSE
             /\ IF timer_id
                THEN /\ setting' = <<[setting[1] EXCEPT !.tested = TRUE]>>
                     /\ lastOp' = [NoOp EXCEPT !.op = "set_stored"]
                     /\ UNCHANGED timers
                ELSE /\ Rearm
                     /\ setting' = <<>>
                     /\ lastOp' = [NoOp EXCEPT !.op = "set", !.val = value,
                                               !.cp = setting[1].cp,
                                               !.acc = TRUE,
                                               !.trace = SetterTrace("armed")]
    /\ UNCHANGED <<config, environment, poll_timer_id, cache_timer,
                   last_percent, last_raw, last_update_time,
                   last_file_mtime, fetched_at, fired, taken, cache_wait,
                   readers, cleanup_pc>>

\* line 303: GLib.source_remove(self._timer_id) removes the source the field
\* names if it is still armed and leaves the field as it is; it raises
\* TypeError when cleanup has set the field to None since line 302, and the
\* setter is over (the unlock is in "finally")
SetRemove ==
    /\ ctor' = <<>>
    /\ setting # <<>>
    /\ setting[1].tested
    /\ ~setting[1].removed
    /\ UNCHANGED commands
    /\ IF timer_id
       THEN /\ sources' = IF owned THEN sources - 1 ELSE sources
            /\ owned' = FALSE
            /\ timer_id' = timer_id
            /\ setting' = <<[setting[1] EXCEPT !.removed = TRUE]>>
            /\ lastOp' = [NoOp EXCEPT !.op = "set_removed"]
       ELSE /\ setting' = <<>>
            /\ lastOp' = [NoOp EXCEPT !.op = "set", !.val = setting[1].val,
                                      !.cp = setting[1].cp, !.acc = TRUE,
                                      !.failed = TRUE,
                                      !.trace = SetterTrace("raised")]
            /\ UNCHANGED timers
    /\ Forget
    /\ UNCHANGED <<config, environment, windows, pending_raw, poll_timer_id,
                   cache_timer, last_percent, last_raw, last_update_time,
                   last_file_mtime, fetched_at, fired, taken, cache_wait,
                   readers, cleanup_pc>>

\* the setter ends (lines 304-306): the new source is armed and its id
\* stored, whatever cleanup has done to the field since line 303
SetArm ==
    /\ ctor' = <<>>
    /\ setting # <<>>
    /\ setting[1].removed
    /\ UNCHANGED commands
    /\ setting' = <<>>
    /\ Rearm
    /\ lastOp' = [NoOp EXCEPT !.op = "set", !.val = setting[1].val,
                              !.cp = setting[1].cp, !.acc = TRUE,
                              !.trace = SetterTrace("armed")]
    /\ Forget
    /\ UNCHANGED <<config, environment, windows, pending_raw, poll_timer_id,
                   cache_timer, last_percent, last_raw, last_update_time,
                   last_file_mtime, fetched_at, fired, taken, cache_wait,
                   readers, cleanup_pc>>

\* ------------------------------------------------------------ debounce timer
\* the raw values _apply_brightness hands to exec_shell_command_async: the
\* ddcutil command line reads self.ddcutil_bus, which raises AttributeError
\* (caught and logged) when the attribute was never set
ApplyCmd(raw) ==
    IF backend = "brightnessctl" THEN <<raw>>
    ELSE IF backend = "ddcutil" /\ has_bus THEN <<raw>>
    ELSE <<>>

\* the percentages _apply_brightness emits for raw
ApplyEmit(raw) ==
    IF backend \in {"brightnessctl", "ddcutil"}
    THEN <<ToPercent(raw, max_screen)>> ELSE <<>>

\* the set of raw values whose command _apply_brightness starts
Issued(raw) == {ApplyCmd(raw)[i] : i \in 1..Len(ApplyCmd(raw))}

\* the last percentage notified, after a handler emitted emit
Emitted(last, emit) == IF emit = <<>> THEN last ELSE emit[Len(emit)]

\* the statements of the critical section of _apply_brightness (lines
\* 310-320) that take or release self._lock or assign _pending_raw or
\* _timer_id, in the order they run
TakeTrace(had_pending) ==
    IF ~had_pending THEN <<"lock", "w_timer", "unlock">>
    ELSE <<"lock", "w_pending", "w_timer", "unlock">>

\* the statements of an _apply_brightness that found a pending value: its
\* critical section, then the cache write, the emit and the start of the
\* external command
ApplyTrace(emits, issues) ==
    TakeTrace(TRUE) \o <<"w_cache">>
        \o (IF emits THEN <<"emit">> ELSE <<>>)
        \o (IF issues THEN <<"cmd">> ELSE <<>>)

\* a debounce source is dispatched: the main loop calls _apply_brightness,
\* whose first statement waits for the lock (line 310).  mine: the source
\* is the one self._timer_id names.  While the external commands are
\* followed, no source is dispatched with MaxInflight of them running
Fire ==
    /\ ctor' = <<>>
    /\ sources > 0
    /\ ~Busy
    /\ tracking => BagCardinality(inflight) < MaxInflight
    /\ UNCHANGED commands
    /\ \E mine \in BOOLEAN :
         /\ IF mine THEN owned ELSE sources - (IF owned THEN 1 ELSE 0) > 0
         /\ owned' = (owned /\ ~mine)
    /\ sources' = sources - 1
    /\ fired' = TRUE
    /\ fresh' = <<>>
    /\ winDrop' = winDrop
    /\ lastOp' = [NoOp EXCEPT !.op = "fire"]
    /\ UNCHANGED <<config, environment, windows, pending_raw, timer_id,
                   poll_timer_id, cache_timer, last_percent, last_raw,
                   last_update_time, last_file_mtime, fetched_at, taken,
                   cache_wait, readers, setting, cleanup_pc>>

\* the callback gets the lock and finds a pending value: the critical
\* section of _apply_brightness (lines 310-320) takes the value and clears
\* it and the timer id, whichever source the id names
ApplyTake ==
    /\ ctor' = <<>>
    /\ fired
    /\ setting = <<>>
    /\ pending_raw # None
    /\ UNCHANGED commands
    /\ fired' = FALSE
    /\ timer_id' = FALSE
    /\ owned' = FALSE
    /\ pending_raw' = None
    /\ taken' = <<pending_raw>>
    /\ closed' = [last |-> winLast, drop |-> winDrop]
    /\ winLast' = None
    /\ Forget
    /\ lastOp' = [NoOp EXCEPT !.op = "take", !.val = pending_raw,
                              !.trace = TakeTrace(TRUE)]
    /\ UNCHANGED <<config, environment, sources, poll_timer_id, cache_timer,
                   last_percent, last_raw, last_update_time, last_file_mtime,
                   fetched_at, cache_wait, readers, setting, cleanup_pc>>

\* the callback gets the lock and finds no pending value (lines 310-314):
\* it clears the timer id, whichever source the id names, and returns
ApplyIdle ==
    /\ ctor' = <<>>
    /\ fired
    /\ setting = <<>>
    /\ pending_raw = None
    /\ UNCHANGED commands
    /\ fired' = FALSE
    /\ timer_id' = FALSE
    /\ owned' = FALSE
    /\ Forget
    /\ lastOp' = [NoOp EXCEPT !.op = "idle", !.trace = TakeTrace(FALSE)]
    /\ UNCHANGED <<config, environment, windows, sources, pending_raw, taken,
                   poll_timer_id, cache_timer, last_percent, last_raw,
                   last_update_time, last_file_mtime, fetched_at, cache_wait,
                   readers, setting, cleanup_pc>>

\* the rest of _apply_brightness (lines 322-347), outside the lock: the cache
\* write, the emit and the start of the external command
Apply ==
    /\ ctor' = <<>>
    /\ taken # <<>>
    /\ LET raw == taken[1] IN
       /\ last_raw' = raw
       /\ last_update_time' = IF backend = "ddcutil" THEN now ELSE last_update_time
       /\ fetched_at' = IF backend = "ddcutil" THEN now ELSE fetched_at
       /\ inflight' = IF tracking THEN inflight (+) SetToBag(Issued(raw))
                      ELSE inflight
       /\ lastEmit' = IF tracking THEN Emitted(lastEmit, ApplyEmit(raw))
                      ELSE lastEmit
       /\ fresh' = <<raw>>
       /\ winDrop' = FALSE
       /\ lastOp' = [NoOp EXCEPT !.op = "apply", !.applied = <<raw>>,
                                 !.emit = ApplyEmit(raw),
                                 !.cmd = ApplyCmd(raw),
                                 !.drop = closed.drop,
                                 !.trace = ApplyTrace(ApplyEmit(raw) # <<>>,
                                                      ApplyCmd(raw) # <<>>)]
    /\ taken' = <<>>
    /\ closed' = NoWin
    /\ UNCHANGED <<file_own, missed, config, environment, pending_raw,
                   timer_id, poll_timer_id, cache_timer, last_percent,
                   last_file_mtime, fired, cache_wait, readers, winLast,
                   sources, owned, setting, cleanup_pc>>

\* ------------------------------------------------------------ getter
\* a getter that forgets the cached value when a read fails
FailedReadDropsCache(sub) ==
    [ret |-> -1, raw |-> INVALID, time |-> last_update_time, sub |-> sub,
     failed |-> TRUE]

\* the getter's way out after a failed read: "return -1" of the sysfs
\* branch (reached only without a cached value) and
\* "return self._last_raw if self._last_raw != -1 else -1"
FailedRead(sub) ==
    [ret |-> IF last_raw # INVALID THEN last_raw ELSE -1, raw |-> last_raw,
     time |-> last_update_time, sub |-> sub, failed |-> TRUE]

\* the ddcutil getter from the return of subprocess.run on (lines 259-273).
\* ok: the call succeeded and its output parses; cur: its "current value"
Answer(ok, cur) ==
    IF ok
    THEN [ret |-> cur, raw |-> cur, time |-> now, sub |-> TRUE, failed |-> FALSE]
    ELSE FailedRead(TRUE)

\* the brightnessctl getter from the read of the backlight file on (lines
\* 230-235); it is there only when the test of line 223 found no cached
\* value.  ok: the read succeeded and parses; cur: the file's content
FileAnswer(ok, cur) ==
    IF ok
    THEN [ret |-> cur, raw |-> cur, time |-> last_update_time, sub |-> FALSE,
          failed |-> FALSE]
    ELSE [ret |-> -1, raw |-> last_raw, time |-> last_update_time,
          sub |-> FALSE, failed |-> TRUE]

\* the getter has to wait for I/O: under ddcutil it finds no fresh cached
\* value and calls subprocess.run (str(self.ddcutil_bus) raises before the
\* call when the bus was never set); under brightnessctl it finds no cached
\* value and opens the backlight file (which fails at once without a device)
GetterWaits ==
    \/ /\ backend = "ddcutil"
       /\ ~(now - last_update_time < CACHE_INTERVAL /\ last_raw # INVALID)
       /\ has_bus
    \/ /\ backend = "brightnessctl"
       /\ last_raw = INVALID
       /\ has_dev

\* the getter from the end of its I/O on
Finish(ok, cur) ==
    IF backend = "ddcutil" THEN Answer(ok, cur) ELSE FileAnswer(ok, cur)

\* screen_brightness getter, run with nothing else in between.  ok: the file
\* read or the subprocess call succeeds and its output parses; cur: the
\* value it then yields.  The result is the value returned, the new
\* _last_raw and _last_update_time, whether a subprocess was run and whether
\* the read failed.
Getter(ok, cur) ==
    IF backend = "none"
    THEN [ret |-> -1, raw |-> last_raw, time |-> last_update_time,
          sub |-> FALSE, failed |-> FALSE]
    ELSE IF backend = "brightnessctl"
    THEN IF last_raw # INVALID
         THEN [ret |-> last_raw, raw |-> last_raw, time |-> last_update_time,
               sub |-> FALSE, failed |-> FALSE]
         ELSE IF ~has_dev
         \* no such file
         THEN FileAnswer(FALSE, cur)
         ELSE FileAnswer(ok, cur)
    ELSE IF now - last_update_time < CACHE_INTERVAL /\ last_raw # INVALID
    THEN [ret |-> last_raw, raw |-> last_raw, time |-> last_update_time,
          sub |-> FALSE, failed |-> FALSE]
    ELSE IF ~has_bus
    \* str(self.ddcutil_bus) raises before subprocess.run is entered
    THEN FailedRead(FALSE)
    ELSE Answer(ok, cur)

\* the values a successful read can yield
ReadVals == IF backend = "ddcutil" THEN DdcVals ELSE {file_raw}

\* the getter returns with the result g: its state change, reported as
\* handler op
RunGetter(op, g) ==
    /\ last_raw' = g.raw
    /\ last_update_time' = g.time
    /\ fetched_at' = IF backend = "ddcutil"
                        /\ (g.raw # last_raw \/ g.time # last_update_time)
                     THEN now ELSE fetched_at
    /\ lastOp' = [NoOp EXCEPT !.op = op, !.ret = g.ret, !.sub = g.sub,
                              !.failed = g.failed]

\* a caller reads screen_brightness: the getter returns at once, or it
\* enters subprocess.run or the read of the backlight file and waits
Read ==
    /\ ctor' = <<>>
    /\ UNCHANGED commands
    /\ IF GetterWaits
       THEN /\ readers < MaxReaders
            /\ Callers < MaxCallers
            /\ readers' = readers + 1
            /\ lastOp' = [NoOp EXCEPT !.op = "read_wait",
                                      !.sub = (backend = "ddcutil")]
            /\ UNCHANGED <<last_raw, last_update_time, fetched_at>>
       ELSE /\ \E ok \in BOOLEAN : \E cur \in ReadVals :
                 RunGetter("read", Getter(ok, cur))
            /\ UNCHANGED readers
    /\ winDrop' = FALSE
    /\ UNCHANGED <<config, environment, windows, fresh, pending_raw, timer_id,
                   poll_timer_id, cache_timer, last_percent, last_file_mtime,
                   fired, taken, cache_wait, sources, owned, setting,
                   cleanup_pc>>

\* the I/O of a waiting caller ends and it finishes the getter
ReadDone ==
    /\ ctor' = <<>>
    /\ UNCHANGED commands
    /\ readers > 0
    /\ readers' = readers - 1
    /\ \E ok \in BOOLEAN : \E cur \in ReadVals :
         RunGetter("read_done", Finish(ok, cur))
    /\ winDrop' = FALSE
    /\ UNCHANGED <<config, environment, windows, fresh, pending_raw, timer_id,
                   poll_timer_id, cache_timer, last_percent, last_file_mtime,
                   fired, taken, cache_wait, sources, owned, setting,
                   cleanup_pc>>

\* _update_brightness_cache, run once by the 100 ms source of __init__: its
\* getter returns at once, or it enters subprocess.run and waits
CacheTimer ==
    /\ ctor' = <<>>
    /\ UNCHANGED commands
    /\ cache_timer
    /\ ~Busy
    /\ cache_timer' = FALSE
    /\ IF backend # "ddcutil"
       THEN /\ lastOp' = [NoOp EXCEPT !.op = "cache_timer"]
            /\ UNCHANGED <<last_raw, last_update_time, fetched_at, cache_wait,
                   setting, cleanup_pc>>
       ELSE IF GetterWaits
       THEN /\ cache_wait' = TRUE
            /\ lastOp' = [NoOp EXCEPT !.op = "cache_wait", !.sub = TRUE]
            /\ UNCHANGED <<last_raw, last_update_time, fetched_at>>
       ELSE /\ \E ok \in BOOLEAN : \E cur \in ReadVals :
                 RunGetter("cache_timer", Getter(ok, cur))
            /\ UNCHANGED cache_wait
    /\ Forget
    /\ UNCHANGED <<config, environment, windows, pending_raw, timer_id,
                   poll_timer_id, last_percent, last_file_mtime,
                   fired, taken, readers,
                   sources, owned, setting, cleanup_pc>>

\* subprocess.run returns to _update_brightness_cache, which finishes
CacheTimerDone ==
    /\ ctor' = <<>>
    /\ UNCHANGED commands
    /\ cache_wait
    /\ cache_wait' = FALSE
    /\ \E ok \in BOOLEAN : \E cur \in DdcVals :
         RunGetter("cache_done", Answer(ok, cur))
    /\ Forget
    /\ UNCHANGED <<config, environment, windows, pending_raw, timer_id,
                   poll_timer_id, cache_timer, last_percent, last_file_mtime,
                   fired, taken, readers, sources, owned, setting, cleanup_pc>>

\* ------------------------------------------------------------ watcher
\* _check_brightness_file.  io: "ok"; "stat" (the path is gone or getmtime
\* raises); "read" (open or int() raises, after the new mtime was stored).
\* The result is the new _last_file_mtime, _last_raw, _last_percent and the
\* percentages emitted.
CheckFile(io) ==
    LET same == [mtime |-> last_file_mtime, raw |-> last_raw,
                 percent |-> last_percent, emit |-> <<>>]
        percent == ToPercent(file_raw, max_screen)
    IN  IF io = "stat" \/ ~has_dev \/ ~(file_mtime > last_file_mtime) THEN same
        ELSE IF io = "read" THEN [same EXCEPT !.mtime = file_mtime]
        ELSE IF file_raw = last_raw THEN [same EXCEPT !.mtime = file_mtime]
        ELSE IF Abs(percent - last_percent) >= MIN_CHANGE_THRESHOLD
        THEN [mtime |-> file_mtime, raw |-> file_raw, percent |-> percent,
              emit |-> <<percent>>]
        ELSE [same EXCEPT !.mtime = file_mtime, !.raw = file_raw]

\* the poll source fires; the callback returns True, so it stays armed
Poll ==
    /\ ctor' = <<>>
    /\ poll_timer_id
    /\ ~Busy
    /\ UNCHANGED <<inflight, file_own>>
    /\ UNCHANGED threads
    /\ \E io \in {"ok", "stat", "read"} :
         LET c == CheckFile(io) IN
         /\ lastEmit' = IF tracking THEN Emitted(lastEmit, c.emit) ELSE lastEmit
         /\ missed' = (/\ tracking
                        /\ io # "ok"
                        /\ (missed \/ (has_dev /\ file_mtime > last_file_mtime)))
         /\ last_file_mtime' = c.mtime
         /\ last_raw' = c.raw
         /\ last_percent' = c.percent
         /\ UNCHANGED fetched_at
         /\ lastOp' = [NoOp EXCEPT !.op = "poll", !.emit = c.emit,
                                   !.failed = (io # "ok")]
    /\ Forget
    /\ UNCHANGED <<config, environment, windows, pending_raw, timer_id,
                   poll_timer_id, cache_timer, last_update_time,
                   sources, owned>>

\* ------------------------------------------------------------ cleanup
\* the statements of cleanup that take or release self._lock or assign
\* _timer_id: it assigns at line 353 and never locks
CleanupTrace(wrote) == IF wrote THEN <<"w_timer">> ELSE <<>>

\* cleanup is called (line 351): without a timer id it goes on to the poll
\* source (lines 355-357) and returns
Cleanup ==
    /\ ctor' = <<>>
    /\ cleanup_pc = "out"
    /\ UNCHANGED commands
    /\ IF timer_id
       THEN /\ Callers < MaxCallers
            /\ cleanup_pc' = "tested"
            /\ lastOp' = [NoOp EXCEPT !.op = "cleanup_test"]
            /\ UNCHANGED poll_timer_id
       ELSE /\ poll_timer_id' = FALSE
            /\ lastOp' = [NoOp EXCEPT !.op = "cleanup",
                                      !.trace = CleanupTrace(FALSE)]
            /\ UNCHANGED cleanup_pc
    /\ Forget
    /\ UNCHANGED <<config, environment, timers, windows, pending_raw,
                   cache_timer, last_percent, last_raw, last_update_time,
                   last_file_mtime, fetched_at, fired, taken, cache_wait,
                   readers, setting>>

\* line 352: GLib.source_remove(self._timer_id) removes the source the field
\* names if it is still armed; when the debounce callback has set the field
\* to None since line 351 the call raises TypeError and cleanup is over
CleanupRemove ==
    /\ ctor' = <<>>
    /\ cleanup_pc = "tested"
    /\ UNCHANGED commands
    /\ IF timer_id
       THEN /\ sources' = IF owned THEN sources - 1 ELSE sources
            /\ owned' = FALSE
            /\ cleanup_pc' = "removed"
            /\ lastOp' = [NoOp EXCEPT !.op = "cleanup_remove"]
       ELSE /\ cleanup_pc' = "out"
            /\ lastOp' = [NoOp EXCEPT !.op = "cleanup", !.failed = TRUE,
                                      !.trace = CleanupTrace(FALSE)]
            /\ UNCHANGED <<sources, owned>>
    /\ Forget
    /\ UNCHANGED <<config, environment, windows, timer_id, pending_raw,
                   poll_timer_id, cache_timer, last_percent, last_raw,
                   last_update_time, last_file_mtime, fetched_at, fired, taken,
                   cache_wait, readers, setting>>

\* lines 353-357: the field is set to None, whatever it holds by now, and
\* the poll source is removed
CleanupDone ==
    /\ ctor' = <<>>
    /\ cleanup_pc = "removed"
    /\ UNCHANGED commands
    /\ timer_id' = FALSE
    /\ owned' = FALSE
    /\ poll_timer_id' = FALSE
    /\ cleanup_pc' = "out"
    /\ lastOp' = [NoOp EXCEPT !.op = "cleanup", !.trace = CleanupTrace(TRUE)]
    /\ Forget
    /\ UNCHANGED <<config, environment, windows, sources, pending_raw,
                   cache_timer, last_percent, last_raw, last_update_time,
                   last_file_mtime, fetched_at, fired, taken, cache_wait,
                   readers, setting>>

\* ------------------------------------------------------------ environment
\* what "brightnessctl set raw" leaves in the brightness file
Written(raw) == Min(raw, dev_max)

\* the values something writes to the brightness file: another program (a
\* hotkey daemon, a brightnessctl run by hand) or, where the service's own
\* commands are not followed to their completion, a brightnessctl the
\* service started
WriteVals ==
    ExtVals(dev_max) \cup {Written(Clamp(v, max_screen)) : v \in Requests}

\* something writes the brightness file
ExternalChange ==
    /\ ctor' = <<>>
    /\ file_own' = FALSE
    /\ missed' = FALSE
    /\ UNCHANGED <<inflight, lastEmit>>
    /\ UNCHANGED threads
    /\ has_dev
    /\ file_mtime < MaxMtime
    /\ \E r \in WriteVals : file_raw' = r
    /\ file_mtime' = file_mtime + 1
    /\ lastOp' = [NoOp EXCEPT !.op = "external"]
    /\ Forget
    /\ UNCHANGED <<config, now, windows, pending_raw, timer_id, poll_timer_id,
                   cache_timer, last_percent, last_raw, last_update_time,
                   last_file_mtime, fetched_at,
                   sources, owned>>

\* _last_raw after an external set command ended: brightnessctl is started
\* without a callback and the ddcutil callback only logs a non-zero exit
AfterCommand(ok) == last_raw

\* one of the running external set commands ends, with exit code 0
\* (brightnessctl then has written the value to the brightness file) or with
\* an error
CommandDone ==
    /\ ctor' = <<>>
    /\ UNCHANGED threads
    /\ \E raw \in BagToSet(inflight), ok \in BOOLEAN :
         LET writes == ok /\ backend = "brightnessctl" IN
         /\ ok => (backend = "ddcutil" \/ (has_dev /\ file_mtime < MaxMtime))
         /\ inflight' = inflight (-) SetToBag({raw})
         /\ file_raw' = IF writes THEN Written(raw) ELSE file_raw
         /\ file_mtime' = IF writes THEN file_mtime + 1 ELSE file_mtime
         /\ file_own' = IF writes THEN TRUE ELSE file_own
         /\ missed' = IF writes THEN FALSE ELSE missed
         /\ last_raw' = AfterCommand(ok)
         /\ lastOp' = [NoOp EXCEPT !.op = "done", !.val = raw, !.failed = ~ok]
    /\ Forget
    /\ UNCHANGED <<config, now, windows, pending_raw, timer_id, poll_timer_id,
                   cache_timer, last_percent, last_update_time,
                   last_file_mtime, fetched_at, lastEmit, sources, owned>>

\* a second of wall-clock time passes (only the ddcutil getter and
\* _apply_brightness under ddcutil read the clock)
Tick ==
    /\ ctor' = <<>>
    /\ UNCHANGED commands
    /\ UNCHANGED threads
    /\ backend = "ddcutil"
    /\ now < StartTime + MaxTicks
    /\ now' = now + 1
    /\ lastOp' = [NoOp EXCEPT !.op = "tick"]
    /\ Forget
    /\ UNCHANGED <<config, file_raw, file_mtime, windows, pending_raw, timer_id,
                   poll_timer_id, cache_timer, last_percent, last_raw,
                   last_update_time, last_file_mtime, fetched_at,
                   sources, owned>>

Next ==
    \/ SetBegin
    \/ SetRequest
    \/ SetRemove
    \/ SetArm
    \/ Fire
    \/ ApplyTake
    \/ ApplyIdle
    \/ Apply
    \/ Read
    \/ ReadDone
    \/ CacheTimer
    \/ CacheTimerDone
    \/ Poll
    \/ Cleanup
    \/ CleanupRemove
    \/ CleanupDone
    \/ ExternalChange
    \/ Tick

Spec == Init /\ [][Next]_vars

\* the same steps together with the completion of the commands started
IoNext ==
    \/ Next
    \/ CommandDone

IoSpec == IoInit /\ [][IoNext]_vars

TypeOK ==
    /\ backend \in {"none", "brightnessctl", "ddcutil"}
    /\ max_screen > 0
    /\ pending_raw \in {None} \cup 0..max_screen
    /\ timer_id \in BOOLEAN /\ poll_timer_id \in BOOLEAN /\ cache_timer \in BOOLEAN
    /\ last_raw >= INVALID /\ last_percent >= INVALID
    /\ tracking \in BOOLEAN /\ file_own \in BOOLEAN /\ missed \in BOOLEAN
    /\ BagCardinality(inflight) <= MaxInflight
    /\ \A raw \in BagToSet(inflight) : raw \in 0..max_screen
    /\ lastEmit >= INVALID
    /\ ~tracking => (inflight = EmptyBag /\ ~file_own /\ ~missed /\ lastEmit = INVALID)
    /\ Len(taken) <= 1
    /\ \A i \in 1..Len(taken) : taken[i] \in 0..max_screen
    /\ cache_wait \in BOOLEAN
    /\ readers \in 0..MaxReaders
    /\ sources \in 0..MaxSources
    /\ owned => (timer_id /\ sources > 0)
    /\ Len(setting) <= 1
    /\ \A i \in 1..Len(setting) : setting[i].removed => setting[i].tested
    /\ cleanup_pc \in {"out", "tested", "removed"}
    /\ fired \in BOOLEAN
    /\ ~(fired /\ taken # <<>>)
    /\ ~(fired /\ cache_wait)
    /\ ~(taken # <<>> /\ cache_wait)
    /\ (closed # NoWin) <=> (taken # <<>>)
    /\ winDrop => winLast # None
    /\ closed.drop => closed.last # None
    /\ Len(fresh) <= 1

\* ------------------------------------------------------------ claims
\* the steps in which a GLib source starts its callback
TimerOps == {"fire", "poll", "cache_timer", "cache_wait"}

\* C1 as stated: every request made while a debounce source is armed
\* supersedes the pending value, so that the value the timer applies is the
\* clamped value of the last request.
C1_LastRequestWins ==
    (lastOp.op = "set" /\ sources > 0)
        => pending_raw = Clamp(lastOp.val, max_screen)

\* C1 amended: the requests made since a callback last took the pending
\* value form a window.  A callback that gets the lock with a window open
\* takes the clamped value of the last request of the window that was not
\* dropped, and then applies exactly that one value: it becomes the cached
\* value and, with a backend whose command can be started (brightnessctl,
\* or ddcutil with a detected bus), the value of exactly one set command;
\* without such a backend no command is started.  Each window closed gets
\* its write before another is closed, a callback that finds no accepted
\* request waiting applies nothing, and no other step applies a value or
\* starts a command.
C1_LastAcceptedWins ==
    [][/\ lastOp'.op = "take"
            => /\ winLast # None
               /\ taken' = <<winLast>>
               /\ closed = NoWin
       /\ lastOp'.op = "idle"
            => /\ winLast = None
               /\ taken' = <<>>
               /\ last_raw' = last_raw
       /\ lastOp'.op = "apply"
            => /\ closed.last # None
               /\ lastOp'.applied = <<closed.last>>
               /\ last_raw' = closed.last
               /\ lastOp'.cmd =
                    IF backend = "brightnessctl" \/ (backend = "ddcutil" /\ has_bus)
                    THEN <<closed.last>> ELSE <<>>
       /\ lastOp'.op # "apply"
            => /\ lastOp'.applied = <<>>
               /\ lastOp'.cmd = <<>>
      ]_vars

\* the timer applied the value of an earlier request of its window, and
\* started its command, although a request for another value, dropped as
\* insignificant, came after it
C1_Witness ==
    /\ lastOp.op = "apply"
    /\ lastOp.drop
    /\ Len(lastOp.cmd) = 1
    /\ lastOp.cmd = lastOp.applied

\* C2 as stated: a request made while a valid cached value exists is dropped
\* exactly when the percent of its clamped value is less than 2 from the
\* current percent the setter computed; a dropped request changes neither
\* the pending value, the timer nor the cache and emits nothing; any other
\* request, one made without a valid cached value included, becomes the
\* pending value and arms the timer.
C2_DropRule ==
    [][lastOp'.op = "set" =>
         LET v == Clamp(lastOp'.val, max_screen)
             close == Abs(ToPercent(v, max_screen) - lastOp'.cp)
                        < MIN_CHANGE_THRESHOLD
         IN  /\ lastOp'.emit = <<>> /\ lastOp'.cmd = <<>>
             /\ IF lastOp'.cp # INVALID /\ close
                THEN /\ ~lastOp'.acc
                     /\ UNCHANGED <<pending_raw, timers, last_raw, last_percent,
                                    last_update_time>>
                ELSE /\ lastOp'.acc
                     /\ pending_raw' = v
                     /\ timer_id' /\ owned'
                     /\ UNCHANGED <<last_raw, last_percent, last_update_time>>]_vars

\* C3 as stated: with an active backend a firing of the timer that finds a
\* pending value v emits exactly one notification, carrying
\* to_percent(v, max_raw) = floor(v / max_raw * 100); a set request emits
\* nothing itself, whether dropped or accepted, and nothing but the timer
\* callback and the watcher emits.
C3_OneEmitPerApply ==
    [][/\ lastOp'.op = "take"
            => /\ taken' = <<pending_raw>>
               /\ lastOp'.emit = <<>>
       /\ (lastOp'.op = "apply" /\ backend # "none")
            => /\ Len(taken) = 1
               /\ lastOp'.emit = <<(taken[1] * 100) \div max_screen>>
       /\ lastOp'.op \in {"set_begin", "set_stored", "set_removed", "set"}
            => lastOp'.emit = <<>>
       /\ lastOp'.emit # <<>> => lastOp'.op \in {"apply", "poll"}]_vars

\* C4 as stated: whenever the cached raw value and the cached percent are
\* both valid, the cached percent is the percent of the cached raw value.
C4_PercentMatchesRaw ==
    (last_raw # INVALID /\ last_percent # INVALID)
        => last_percent = ToPercent(last_raw, max_screen)

\* C5 as stated: cleanup cancels every timer, so the step that follows it
\* is never a timer callback.
C5_NoCallbackAfterCleanup ==
    [][lastOp.op = "cleanup" => lastOp'.op \notin TimerOps]_vars

\* C6 as stated: without a backend every read returns -1 and a set request
\* changes no state, emits nothing and issues no command.
C6_DisabledIsInert ==
    backend = "none"
        => /\ pending_raw = None
           /\ ~timer_id
           /\ last_raw = INVALID
           /\ lastOp.emit = <<>>
           /\ lastOp.cmd = <<>>
           /\ lastOp.op = "read" => lastOp.ret = -1

\* C7 as stated: under ddcutil a read made less than CACHE_INTERVAL after the
\* cached value was obtained returns it without a subprocess; any other
\* read runs the query tool.
C7_CacheWindow ==
    [][(backend = "ddcutil" /\ lastOp'.op \in {"read", "read_wait"}) =>
         IF last_raw # INVALID /\ now - fetched_at < CACHE_INTERVAL
         THEN lastOp'.op = "read" /\ lastOp'.ret = last_raw /\ ~lastOp'.sub
         ELSE lastOp'.op = "read_wait" /\ lastOp'.sub]_vars

\* C8: a read whose I/O fails returns the cached raw value if the getter
\* finds one, else -1 (under brightnessctl the file is only read when the
\* getter found none, and it returns -1), and changes neither the cached
\* value nor the cache timestamp.
C8_FailedReadKeepsCache ==
    [][(/\ lastOp'.op \in {"read", "read_done", "cache_timer", "cache_done"}
        /\ lastOp'.failed) =>
         /\ lastOp'.ret = IF backend = "brightnessctl" THEN -1
                          ELSE IF last_raw # INVALID THEN last_raw ELSE -1
         /\ last_raw' = last_raw
         /\ last_update_time' = last_update_time]_vars

\* a query subprocess failed and the read returned the cached value
C8_Witness ==
    /\ lastOp.op = "read_done"
    /\ lastOp.failed
    /\ lastOp.sub
    /\ lastOp.ret # -1

\* C9 as stated: a poll changes the cached raw value or emits only when the
\* modification time increased, the raw value read differs from the cached
\* one and its percent is at least 2 from the previous percent.
C9_PollNeedsSignificance ==
    [][lastOp'.op = "poll" =>
         ((last_raw' # last_raw \/ lastOp'.emit # <<>>) =>
              /\ file_mtime > last_file_mtime
              /\ file_raw # last_raw
              /\ Abs(ToPercent(file_raw, max_screen) - last_percent)
                   >= MIN_CHANGE_THRESHOLD)]_vars

\* C10 as stated: every notification carries a percentage in 0..100.
C10_EmitInRange ==
    \A i \in 1..Len(lastOp.emit) : lastOp.emit[i] \in 0..100

\* C11: a forced backend is taken as given; otherwise brightnessctl is
\* selected iff its executable and a backlight device exist, otherwise
\* ddcutil iff its executable exists and a bus was parsed, otherwise none;
\* and no handler ever changes the selection.
C11_DetectPriority ==
    /\ \A i \in 1..Len(ctor) :
         LET c == ctor[i]
             sysfs == c.bctl_exe /\ c.device
             bus == c.ddc_exe /\ c.bus_found
         IN  /\ c.forced # "" => backend = c.forced
             /\ c.forced = "" =>
                  /\ backend = "brightnessctl" <=> sysfs
                  /\ backend = "ddcutil" <=> (~sysfs /\ bus)
                  /\ backend = "none" <=> (~sysfs /\ ~bus)
    /\ [][backend' = backend]_vars

\* brightnessctl is installed but there is no backlight device, so detection
\* went on and selected ddcutil
C11_Witness ==
    /\ Len(ctor) = 1
    /\ ctor[1].forced = ""
    /\ ctor[1].bctl_exe /\ ~ctor[1].device
    /\ ctor[1].ddc_exe /\ ctor[1].bus_found
    /\ backend = "ddcutil"

\* C12: the clamp of every request value is within [0, max_screen] and
\* clamping it again changes nothing; the pending value is the clamp of the
\* accepted request, and it, the value taken by the timer and every applied
\* value are within [0, max_screen].
C12_ClampInRange ==
    /\ \A v \in ReqVals \cup IoReqVals :
         /\ Clamp(v, max_screen) \in 0..max_screen
         /\ Clamp(Clamp(v, max_screen), max_screen) = Clamp(v, max_screen)
    /\ pending_raw # None => pending_raw \in 0..max_screen
    /\ (lastOp.op = "set" /\ lastOp.acc) => pending_raw = Clamp(lastOp.val, max_screen)
    /\ \A i \in 1..Len(taken) : taken[i] \in 0..max_screen
    /\ \A i \in 1..Len(lastOp.applied) : lastOp.applied[i] \in 0..max_screen

\* the clamp of a request outside [0, max_screen] was applied
C12_Witness ==
    /\ lastOp.op = "apply"
    /\ \E v \in Requests :
         /\ v \notin 0..max_screen
         /\ lastOp.applied = <<Clamp(v, max_screen)>>

\* C13 as stated, for a detected monitor that reports the ceiling 100: the
\* notification of an applied raw value carries exactly that value.
C13_DdcPercentIsRaw ==
    (backend = "ddcutil" /\ has_bus /\ max_screen = DEFAULT_MAX /\ lastOp.op = "apply")
        => lastOp.emit = lastOp.applied

\* C15 as stated, for an active backend and with no setter, cleanup or
\* critical section of the timer callback under way: a pending value exists
\* if and only if the debounce timer is armed.
C15_PendingIffTimer ==
    (backend # "none" /\ setting = <<>> /\ cleanup_pc = "out" /\ ~fired)
        => ((pending_raw # None) <=> (timer_id /\ sources > 0))

\* C17 as stated: under ddcutil every applied value is handed to the
\* external set command.
C17_DdcApplyIssuesCommand ==
    (backend = "ddcutil" /\ lastOp.op = "apply") => lastOp.cmd = lastOp.applied

\* whether the lock is held when statement i of trace t runs (i = Len(t) + 1:
\* when the handler returns)
Held(t, i) ==
    Cardinality({j \in 1..(i - 1) : t[j] = "lock"})
        > Cardinality({j \in 1..(i - 1) : t[j] = "unlock"})

\* C16 as stated: in every handler each assignment to _pending_raw or
\* _timer_id runs with the lock held, the lock is released when the handler
\* returns, and it is not held when the external command is started.
C16_LockDiscipline ==
    LET t == lastOp.trace IN
    /\ \A i \in 1..Len(t) : t[i] \in {"w_pending", "w_timer"} => Held(t, i)
    /\ \A i \in 1..Len(t) : t[i] = "cmd" => ~Held(t, i)
    /\ ~Held(t, Len(t) + 1)

\* the event a comes before the event b in the trace t
Before(t, a, b) ==
    \E i \in 1..Len(t) : \E j \in 1..Len(t) : i < j /\ t[i] = a /\ t[j] = b

\* C14 as stated: when the debounce timer applies a value v, the cached raw
\* value becomes v and the notification is emitted before the external
\* command is started, so a read made after the apply, with nothing but
\* reads in between, returns v at once; a command that later ends in
\* failure leaves the cached value alone, starts no other command and arms
\* no timer.
C14_OptimisticCache ==
    [][/\ lastOp'.op = "apply"
            => /\ Len(lastOp'.applied) = 1
               /\ last_raw' = lastOp'.applied[1]
               /\ Len(lastOp'.emit) = 1
               /\ Before(lastOp'.trace, "w_cache", "emit")
               /\ lastOp'.cmd # <<>>
                    => /\ Before(lastOp'.trace, "w_cache", "cmd")
                       /\ Before(lastOp'.trace, "emit", "cmd")
       /\ (fresh # <<>> /\ lastOp'.op \in {"read", "read_wait"})
            => /\ lastOp'.op = "read"
               /\ lastOp'.ret = fresh[1]
       /\ (lastOp'.op = "done" /\ lastOp'.failed)
            => /\ last_raw' = last_raw
               /\ inflight' = inflight (-) SetToBag({lastOp'.val})
               /\ pending_raw' = pending_raw
               /\ timer_id' = timer_id
               /\ sources' = sources
               /\ taken' = taken
               /\ lastOp'.cmd = <<>> /\ lastOp'.emit = <<>>
      ]_vars

\* C18: the watcher never emits for a change of the brightness file that the
\* process's own set command made.
C18_NoEchoOfOwnWrite ==
    (lastOp.op = "poll" /\ lastOp.emit # <<>>) => ~file_own

\* C19: any two consecutive notifications, whether from an applied write or
\* from the watcher, carry percentages that differ by at least
\* MIN_CHANGE_THRESHOLD.
C19_ConsecutiveDiffer ==
    [][(lastOp'.op \in {"apply", "poll"} /\ lastOp'.emit # <<>> /\ lastEmit # INVALID)
         => Abs(lastOp'.emit[1] - lastEmit) >= MIN_CHANGE_THRESHOLD]_vars

\* C20: a failing poll leaves the poll timer armed, and when a poll had
\* failed on a changed file, the next successful poll with the file not
\* modified in between brings the cached raw value to the file's value.
C20_FailedPollRecovers ==
    [][lastOp'.op = "poll"
         => /\ poll_timer_id'
            /\ (missed /\ ~lastOp'.failed) => last_raw' = file_raw]_vars

====
